---- MODULE Spec2Model ----
(***************************************************************************)
(* The enrichment pipeline of EnhancedCompanyIntelligence:                 *)
(*   - CompaniesHouseService (server/routes.ts): the caching, rate-limited *)
(*     registry client (makeRequest and the calls built on it);           *)
(*   - MemStorage (server/storage.ts): companies and processing jobs;      *)
(*   - processBulkCompanies and the routes that start and disturb it.      *)
(*                                                                         *)
(* Strings the code inspects character by character (identifiers, search   *)
(* queries, titles) are sequences of one-character strings; a literal      *)
(* chunk the code never looks into ("/company/") is one element.           *)
(*                                                                         *)
(* Node runs one handler at a time: a continuation that follows an await   *)
(* of an already settled promise runs before any other request, timer or   *)
(* response is handled.  The positions a processor can only be in during   *)
(* such a run are the Transient ones; no other process steps, and no time  *)
(* passes, while some process is in one of them.                           *)
(***************************************************************************)
EXTENDS Integers, Sequences, FiniteSets, TLC

\* ------------------------------------------------------------- bounds
\* Longest identifier list of a bulk request.
MaxItems == 3
\* Clock ticks (of itemDelay ms) the clock may run past the instants below.
MaxTicks == 12
\* Clock ticks the clock may run where the searches of a name are followed:
\* five gated searches take 20 of them.
MaxTicksNames == 26

\* -------------------------------------------------- program constants
minRequestInterval == 500
cacheExpiry == 3600000
itemDelay == 100
secondsPerCompany == 2
msPerSecond == 1000

\* null / undefined of a timestamp or a number
NoTime == -1
\* undefined of a string-valued JSON field or of a parameter object
Undefined == <<"undefined">>
\* !x of a string-valued field: undefined, null and the empty string
Falsy(v) == v = Undefined \/ v = <<>>
\* null of a list-valued column: None, or Some(list)
None == <<>>
Some(x) == <<x>>

\* ------------------------------------------------------------ strings
Digits == {"0", "1", "2", "3", "4", "5", "6", "7", "8", "9"}

DigitValue(c) ==
  CHOOSE n \in 0..9 : <<"0", "1", "2", "3", "4", "5", "6", "7", "8", "9">>[n + 1] = c

\* parseInt(s, 10) of a string of digits: the number its leading digits
\* denote (NaN, which setTimeout takes for no delay, is 0 here)
RECURSIVE ParseDigits(_, _)
ParseDigits(s, acc) ==
  IF s = <<>> \/ Head(s) \notin Digits THEN acc
  ELSE ParseDigits(Tail(s), acc * 10 + DigitValue(Head(s)))

parseInt(s) == ParseDigits(s, 0)

\* Number.prototype.toString of a non-negative integer
RECURSIVE IntToString(_)
IntToString(n) ==
  IF n < 10 THEN << <<"0", "1", "2", "3", "4", "5", "6", "7", "8", "9">>[n + 1] >>
  ELSE IntToString(n \div 10) \o IntToString(n % 10)

\* the header value the 429 branch falls back on
defaultRetryAfter == <<"1">>

\* a match of /^\d{8}/, which lets anything follow the eight digits
IsCompanyNumberUnanchored(s) == Len(s) >= 8 /\ \A i \in 1..8 : s[i] \in Digits

\* companyQuery.match(/^\d{8}$/)
IsCompanyNumber(s) == Len(s) = 8 /\ \A i \in 1..8 : s[i] \in Digits

Upper == <<"A", "C", "E", "M", "L", "I", "T", "D", "S", "R", "V", "O", "H">>
Lower == <<"a", "c", "e", "m", "l", "i", "t", "d", "s", "r", "v", "o", "h">>

\* String.prototype.toLowerCase, on the letters the model's strings use
ToLowerChar(c) ==
  IF \E i \in 1..Len(Upper) : Upper[i] = c
  THEN Lower[CHOOSE i \in 1..Len(Upper) : Upper[i] = c]
  ELSE c

ToLowerCase(s) == [i \in 1..Len(s) |-> ToLowerChar(s[i])]

\* String.prototype.includes
Includes(s, t) ==
  \E i \in 1..(Len(s) - Len(t) + 1) : SubSeq(s, i, i + Len(t) - 1) = t

IsSpace(c) == c \in {" ", "\t", "\n"}

\* s.replace(/\s+/g, ' '): every run of whitespace becomes one space
RECURSIVE CollapseSpaces(_)
CollapseSpaces(s) ==
  IF s = <<>> THEN <<>>
  ELSE IF IsSpace(Head(s))
       THEN IF Len(s) > 1 /\ IsSpace(s[2])
            THEN CollapseSpaces(Tail(s))
            ELSE <<" ">> \o CollapseSpaces(Tail(s))
       ELSE <<Head(s)>> \o CollapseSpaces(Tail(s))

\* String.prototype.trim
RECURSIVE TrimLeft(_)
TrimLeft(s) == IF s # <<>> /\ IsSpace(Head(s)) THEN TrimLeft(Tail(s)) ELSE s

RECURSIVE TrimRight(_)
TrimRight(s) ==
  IF s # <<>> /\ IsSpace(s[Len(s)]) THEN TrimRight(SubSeq(s, 1, Len(s) - 1)) ELSE s

Trim(s) == TrimRight(TrimLeft(s))

\* the variations with LTD tried before LIMITED
VariationsSwapped(companyQuery) ==
  << companyQuery \o <<" ", "L", "T", "D">>,
     companyQuery \o <<" ", "L", "I", "M", "I", "T", "E", "D">>,
     companyQuery \o <<" ", "S", "E", "R", "V", "I", "C", "E", "S">>,
     Trim(CollapseSpaces(companyQuery)) >>

\* the search variations of one name, in the order they are tried
Variations(companyQuery) ==
  << companyQuery \o <<" ", "L", "I", "M", "I", "T", "E", "D">>,
     companyQuery \o <<" ", "L", "T", "D">>,
     companyQuery \o <<" ", "S", "E", "R", "V", "I", "C", "E", "S">>,
     Trim(CollapseSpaces(companyQuery)) >>

\* ------------------------------------------------- the model's inputs
NumberA == <<"1", "2", "3", "4", "5", "6", "7", "8">>
NumberB == <<"8", "7", "6", "5", "4", "3", "2", "1">>
NameAcme == <<"A", "c", "m", "e">>
\* a name with whitespace to clean: " Acme  Co"
NameSpaced == <<" ", "A", "c", "m", "e", " ", " ", "C", "o">>
\* strings that are nearly company numbers
SevenDigits == <<"1", "2", "3", "4", "5", "6", "7">>
NineDigits == <<"1", "2", "3", "4", "5", "6", "7", "8", "9">>
EightWithLetter == <<"1", "2", "3", "4", "5", "6", "7", "X">>

\* identifiers a bulk request may list
Idents == {NumberA, NameSpaced}

\* the company parameter of a single lookup
Queries == {NumberA, NameAcme, SevenDigits, NineDigits, EightWithLetter}

RECURSIVE ListsOfLen(_)
ListsOfLen(n) ==
  IF n = 0 THEN {<<>>}
  ELSE {Append(l, x) : l \in ListsOfLen(n - 1), x \in Idents}

\* bulkUploadSchema: companies is an array of at least one string
BulkLists == UNION {ListsOfLen(n) : n \in 1..MaxItems}
\* --------------------------------------------------- registry payloads
\* an entry of a JSON array: a string or a number, with its text
JsonString(text) == [type |-> "string", text |-> text]
JsonNumber(text) == [type |-> "number", text |-> text]

\* a classification list: well-formed codes among entries that are not
SicCodes ==
  << JsonString(<<"1", "2", "3", "4", "5">>),
     JsonString(<<"a", "b", "c">>),
     JsonString(<<"1">>),
     JsonString(<<"9", "9", "9", "9", "9", "X">>),
     JsonNumber(<<"4", "3", "2", "1", "0">>),
     JsonString(<<"4", "3", "9", "9", "9">>) >>

\* age_years of a payload: not set, or the time from the date of creation
\* to the instant at, in years
NoAge == [set |-> FALSE, from |-> Undefined, at |-> NoTime]
AgeYears(date_of_creation, at) == [set |-> TRUE, from |-> date_of_creation, at |-> at]

\* company records the registry may answer a detail fetch with
GoodBody(companyNumber) ==
  [ company_name |-> <<"A", "C", "M", "E", " ", "L", "T", "D">>,
    company_number |-> companyNumber,
    company_status |-> <<"active">>,
    date_of_creation |-> <<"2", "0", "0", "5", "-", "0", "6", "-", "0", "1">>,
    sic_codes |-> Some(SicCodes),
    data_retrieved_at |-> NoTime, status_interpretation |-> Undefined,
    age_years |-> NoAge ]

\* the same record without its company_status
NoStatusBody(companyNumber) ==
  [GoodBody(companyNumber) EXCEPT !.company_status = Undefined]

\* a record with a status the table of interpretations does not list,
\* without classification codes and without a date of creation
OpenBody(companyNumber) ==
  [GoodBody(companyNumber) EXCEPT !.company_status = <<"open">>, !.sic_codes = None,
                                  !.date_of_creation = Undefined]

\* a record whose status is the name of a property every object inherits
ProtoBody(companyNumber) ==
  [GoodBody(companyNumber) EXCEPT !.company_status = <<"constructor">>, !.sic_codes = None]

DetailBodies(companyNumber) ==
  { GoodBody(companyNumber), NoStatusBody(companyNumber),
    OpenBody(companyNumber), ProtoBody(companyNumber) }

CandAcme == [title |-> <<"A", "C", "M", "E">>, company_number |-> NumberA]
CandOther == [title |-> <<"O", "T", "H", "E", "R">>, company_number |-> NumberB]
CandNoTitle == [title |-> Undefined, company_number |-> NumberB]

\* item lists the registry may answer a search with
SearchItems == {<<>>, <<CandOther, CandAcme>>, <<CandNoTitle>>}

\* a call of the client: getCompanyDetails(arg) or searchCompany(arg)
DetailsCall(companyNumber) == [kind |-> "details", arg |-> companyNumber]
SearchCall(query) == [kind |-> "search", arg |-> query]
NoCall == [kind |-> "none", arg |-> <<>>]

\* what the registry may answer a call with: a status (0: the fetch itself
\* failed), the JSON body of a 2xx, the Retry-After header of a 429
Response(status, body, retryAfter) ==
  [status |-> status, body |-> body, retryAfter |-> retryAfter]

NoBody == [none |-> TRUE]

Statuses == {404, 500, 0}

\* the Retry-After headers of a 429 (Undefined: the header is absent): an
\* hour, which is as long as a cache entry lives
RetryAfters == {Undefined, <<"3", "6", "0", "0">>}

Responses(call) ==
  { Response(st, NoBody, Undefined) : st \in Statuses }
  \cup { Response(429, NoBody, s) : s \in RetryAfters }
  \cup ( IF call.kind = "details"
         THEN { Response(200, b, Undefined) : b \in DetailBodies(call.arg) }
         ELSE { Response(200, [items |-> it], Undefined) : it \in SearchItems } )

\* the year in which the model's clock starts
ThisYear == 2025

\* "YYYY-06-01"
DateOf(year) == IntToString(year) \o <<"-", "0", "6", "-", "0", "1">>

\* dates of creation: years on both sides of every age threshold of the
\* estimators, a year to come, no date, and text that is no date
CreationYears ==
  { ThisYear + 1, ThisYear, ThisYear - 1, ThisYear - 2, ThisYear - 3, ThisYear - 4,
    ThisYear - 5, ThisYear - 6, ThisYear - 8, ThisYear - 9, ThisYear - 10,
    ThisYear - 11, ThisYear - 15, ThisYear - 16, ThisYear - 20, ThisYear - 21,
    ThisYear - 30 }

CreationDates == {DateOf(y) : y \in CreationYears} \cup {Undefined, <<>>, <<"n", "/", "a">>}

\* classification lists: one of each sector, none, two sectors with the
\* later rule's code first, and the list with entries that are no codes
CodeLists ==
  { <<>>,
    << JsonString(<<"4", "3", "9", "9", "9">>) >>,
    << JsonString(<<"4", "1", "1", "0", "0">>) >>,
    << JsonString(<<"4", "2", "1", "1", "0">>) >>,
    << JsonString(<<"8", "1", "3", "0", "0">>) >>,
    << JsonString(<<"1", "2", "3", "4", "5">>) >>,
    << JsonString(<<"4", "1", "1", "0", "0">>), JsonString(<<"4", "3", "9", "9", "9">>) >>,
    SicCodes }

EnrichBodies(companyNumber) ==
  { [GoodBody(companyNumber) EXCEPT !.date_of_creation = d, !.sic_codes = c] :
       d \in CreationDates, c \in {None} \cup {Some(codes) : codes \in CodeLists} }

ResponsesEnrich(call) ==
  { Response(200, b, Undefined) : b \in EnrichBodies(call.arg) }
  \cup { Response(429, NoBody, <<"3", "6", "0", "0">>) }

\* every answer the registry gives in some run of the model
Answers(call) == Responses(call) \cup ResponsesEnrich(call)

\* ----------------------------------------------------------- the cache
\* the endpoint and the params object makeRequest is called with
Endpoint(call) ==
  IF call.kind = "details" THEN <<"/company/">> \o call.arg
  ELSE <<"/search/companies">>

Params(call) ==
  IF call.kind = "details" THEN Undefined
  ELSE << <<"q", call.arg>>, <<"items_per_page", <<"2", "0">>>> >>

\* Object.keys(params).sort() over the keys the client uses
KeyOrder == <<"items_per_page", "q">>

SortedKeys(params) ==
  SelectSeq(KeyOrder, LAMBDA k : \E i \in 1..Len(params) : params[i][1] = k)

ValueOf(params, k) == params[CHOOSE i \in 1..Len(params) : params[i][1] = k][2]

\* JSON.stringify(params, keys): the listed keys, in the list's order
RECURSIVE Stringify(_, _)
Stringify(params, keys) ==
  IF keys = <<>> THEN <<>>
  ELSE <<Head(keys), ":">> \o ValueOf(params, Head(keys)) \o <<",">>
       \o Stringify(params, Tail(keys))

getCacheKey(endpoint, params) ==
  endpoint \o <<"?">> \o
  ( IF params = Undefined THEN <<>>
    ELSE <<"{">> \o Stringify(params, SortedKeys(params)) \o <<"}">> )

CacheKey(call) == getCacheKey(Endpoint(call), Params(call))

VARIABLES
  now,               \* Date.now()
  apiKey,            \* whether COMPANIES_HOUSE_API_KEY is configured
  lastRequestTime,   \* CompaniesHouseService.lastRequestTime
  cache,             \* CompaniesHouseService.cache: key -> [timestamp, data]
  companies,         \* MemStorage.companies, in insertion order
  processingJobs,    \* MemStorage.processingJobs: id -> job
  nextId,            \* randomUUID(): the next fresh id
  proc,              \* the bulk processors: request -> its local state
  fetchedAt          \* history: key -> the instant of its latest 2xx response

vars == <<now, apiKey, lastRequestTime, cache, companies, processingJobs, nextId, proc,
          fetchedAt>>

\* a validity test against the wrong interval
isValidCacheShort(cacheKey) ==
  /\ cacheKey \in DOMAIN cache
  /\ (now - cache[cacheKey].timestamp) < minRequestInterval

\* a validity test that never lets an entry expire
isValidCacheAlways(cacheKey) == cacheKey \in DOMAIN cache

isValidCache(cacheKey) ==
  /\ cacheKey \in DOMAIN cache
  /\ (now - cache[cacheKey].timestamp) < cacheExpiry

\* getCacheStats: the number of entries and the age of the oldest (null,
\* here NoTime, when there is none or its timestamp is 0)
getCacheStats ==
  LET oldest == IF DOMAIN cache = {} THEN 0
                ELSE CHOOSE ts \in {cache[k].timestamp : k \in DOMAIN cache} :
                        \A k \in DOMAIN cache : ts <= cache[k].timestamp
  IN [ size |-> Cardinality(DOMAIN cache),
       oldestEntry |-> IF oldest = 0 THEN NoTime ELSE now - oldest ]

\* cache.set(cacheKey, entry)
CacheSet(c, cacheKey, entry) ==
  [k \in DOMAIN c \cup {cacheKey} |-> IF k = cacheKey THEN entry ELSE c[k]]
\* ------------------------------------------------------------- storage
Terminal == {"completed", "failed"}

\* a createProcessingJob that ignores the request's totalItems
createProcessingJobOne(insertJob) ==
  [ jobType |-> insertJob.jobType, createdAt |-> now, updatedAt |-> now,
    completedAt |-> NoTime, status |-> "pending", totalItems |-> 1,
    processedItems |-> 0, failedItems |-> 0, results |-> None, errorLog |-> None,
    estimatedDuration |-> NoTime, actualDuration |-> NoTime ]

\* MemStorage.createProcessingJob: the job stored for insertJob
createProcessingJob(insertJob) ==
  [ jobType |-> insertJob.jobType,
    createdAt |-> now,
    updatedAt |-> now,
    completedAt |-> NoTime,
    status |-> "pending",
    totalItems |-> IF insertJob.totalItems = 0 THEN 1 ELSE insertJob.totalItems,
    processedItems |-> 0,
    failedItems |-> 0,
    results |-> None,
    errorLog |-> None,
    estimatedDuration |-> NoTime,
    actualDuration |-> NoTime ]

\* an update that stamps completedAt whatever it writes
UpdatedJobStampsAlways(job, updates) ==
  [f \in DOMAIN job \cup DOMAIN updates |->
     IF f \in {"updatedAt", "completedAt"} THEN now
     ELSE IF f \in DOMAIN updates THEN updates[f] ELSE job[f]]

\* { ...job, ...updates, updatedAt: new Date() } and the completedAt rule
UpdatedJob(job, updates) ==
  LET merged == [f \in DOMAIN job \cup DOMAIN updates |->
                   IF f = "updatedAt" THEN now
                   ELSE IF f \in DOMAIN updates THEN updates[f] ELSE job[f]]
  IN IF "status" \in DOMAIN updates /\ updates.status \in Terminal
     THEN [merged EXCEPT !.completedAt = now]
     ELSE merged

\* MemStorage.updateProcessingJob: the job table after the call
updateProcessingJob(jobs, id, updates) ==
  IF id \notin DOMAIN jobs THEN jobs
  ELSE [jobs EXCEPT ![id] = UpdatedJob(jobs[id], updates)]

\* MemStorage.createCompany: the company stored for insertCompany under id
createCompany(insertCompany, id) ==
  [ id |-> id,
    companyNumber |-> insertCompany.companyNumber,
    companyName |-> insertCompany.companyName,
    status |-> insertCompany.status,
    incorporationDate |-> insertCompany.incorporationDate,
    sicCodes |-> insertCompany.sicCodes,
    employeeCount |-> insertCompany.employeeCount,
    estimatedRevenue |-> insertCompany.estimatedRevenue,
    estimatedValuation |-> insertCompany.estimatedValuation,
    createdAt |-> now ]

\* MemStorage.getCompanyByNumber: the first company with the number, if any
getCompanyByNumber(companyNumber) ==
  LET found == SelectSeq(companies, LAMBDA c : c.companyNumber = companyNumber)
  IN IF found = <<>> THEN None ELSE Some(Head(found))

\* MemStorage.searchCompanies(query, 1)
searchCompanies(query) ==
  LET found == SelectSeq(companies, LAMBDA c :
                  \/ Includes(ToLowerCase(c.companyName), ToLowerCase(query))
                  \/ Includes(c.companyNumber, query))
  IN IF found = <<>> THEN None ELSE Some(Head(found))

\* --------------------------------------------------- the bulk processor
\* the requests of a run: Init gives each a process, which serves one bulk
\* request or one single lookup
Procs == {1}

\* the result of a client call: data, or the message of the error thrown
Ok(data) == [ok |-> TRUE, data |-> data, error |-> <<>>]
Err(message) == [ok |-> FALSE, data |-> NoBody, error |-> message]
NoRet == Err(<<>>)

\* positions inside one uninterrupted run of a handler
Transient == {"pending", "call", "ret", "progress", "final"}

NoneRunning == \A q \in DOMAIN proc : proc[q].pc \notin Transient

\* the local variables of processBulkCompanies; attempted and outcome
\* record the history of the loop: the items begun and how each ended
\* the response makeRequest holds: its status and Retry-After header
NoResponse == [status |-> 0, retryAfter |-> Undefined]

\* what GET /api/company answers: the HTTP status, the cached flag, the
\* company and the error message
Answer(status, cached, company, error) ==
  [status |-> status, cached |-> cached, company |-> company, error |-> error]

NoAnswer == Answer(0, FALSE, None, <<>>)

\* the local variables of a request (of processBulkCompanies, or of the
\* handler of GET /api/company, whose query is the one item of list).
\* The rest records history: attempted and outcome, the items begun and how
\* each ended; calls, the client calls made for the current item; sent and
\* limited, the requests sent and the 429s received for the current call;
\* sentAt, the instant the process last sent a request
InitLocal ==
  [ kind |-> "none",
    pc |-> "idle", jobId |-> 0, list |-> <<>>, idx |-> 0, startTime |-> NoTime,
    processedCount |-> 0, failedCount |-> 0, results |-> <<>>, errors |-> <<>>,
    call |-> NoCall, variation |-> 0, wake |-> NoTime, ret |-> NoRet,
    response |-> NoResponse, useCache |-> FALSE, enhance |-> FALSE, answer |-> NoAnswer,
    attempted |-> <<>>, outcome |-> <<>>,
    calls |-> <<>>, sent |-> 0, limited |-> 0, sentAt |-> NoTime ]

\* a call of searchCompany or getCompanyDetails begins
StartCall(l, call) ==
  [l EXCEPT !.pc = "call", !.call = call, !.ret = NoRet, !.response = NoResponse,
            !.sent = 0, !.limited = 0, !.calls = Append(@, call)]

\* the call has been dealt with
EndCall(l) ==
  [l EXCEPT !.call = NoCall, !.ret = NoRet, !.response = NoResponse,
            !.sent = 0, !.limited = 0]

companyQuery(l) == l.list[l.idx]

\* the head of the for loop: the next item's first call, or the end
LoopHead(l) ==
  IF l.idx > Len(l.list) THEN [l EXCEPT !.pc = "final", !.call = NoCall]
  ELSE StartCall([l EXCEPT !.variation = 0, !.attempted = Append(@, l.idx), !.calls = <<>>],
                 IF IsCompanyNumber(companyQuery(l))
                 THEN DetailsCall(companyQuery(l))
                 ELSE SearchCall(companyQuery(l)))

\* a catch block that goes on to the next item without the progress update
CatchSkipsProgress(l, message) ==
  LoopHead([l EXCEPT !.idx = @ + 1,
                     !.failedCount = @ + 1,
                     !.errors = Append(@, [company |-> companyQuery(l), error |-> message]),
                     !.outcome = Append(@, FALSE),
                     !.ret = NoRet])

\* a catch block that leaves the loop
CatchAborts(l, message) ==
  [l EXCEPT !.pc = "final",
            !.failedCount = @ + 1,
            !.errors = Append(@, [company |-> companyQuery(l), error |-> message]),
            !.outcome = Append(@, FALSE),
            !.ret = NoRet, !.call = NoCall]

\* a catch block that counts the failure and logs nothing
CatchLogsNothing(l, message) ==
  [l EXCEPT !.pc = "progress",
            !.failedCount = @ + 1,
            !.outcome = Append(@, FALSE),
            !.ret = NoRet, !.call = NoCall]

\* the catch block of the loop body
Catch(l, message) ==
  [EndCall(l) EXCEPT !.pc = "progress",
                     !.failedCount = @ + 1,
                     !.errors = Append(@, [company |-> companyQuery(l), error |-> message]),
                     !.outcome = Append(@, FALSE)]

\* the clock starts one expiry window after the epoch and runs for MaxTicks
\* ticks in that window and in the next one
Horizon == 2 * cacheExpiry + MaxTicks * itemDelay
InClockRange(t) == t <= Horizon /\ (t % cacheExpiry) <= MaxTicks * itemDelay

Init ==
  /\ now = cacheExpiry
  /\ apiKey \in BOOLEAN
  /\ lastRequestTime = 0
  /\ cache = <<>>
  /\ companies = <<>>
  /\ processingJobs = <<>>
  /\ nextId = 1
  /\ proc = [p \in Procs |-> InitLocal]
  /\ fetchedAt = <<>>

\* POST /api/bulk-process: the job is created and its processor is called
BulkProcess(p, list) ==
  /\ NoneRunning
  /\ proc[p].pc = "idle"
  /\ processingJobs' = [id \in DOMAIN processingJobs \cup {nextId} |->
        IF id = nextId
        THEN createProcessingJob([jobType |-> "bulk", totalItems |-> Len(list)])
        ELSE processingJobs[id]]
  /\ nextId' = nextId + 1
  /\ proc' = [proc EXCEPT ![p] = [InitLocal EXCEPT !.kind = "bulk", !.pc = "pending",
                                                   !.jobId = nextId,
                                                   !.list = list, !.startTime = now]]
  /\ UNCHANGED <<now, apiKey, lastRequestTime, cache, companies, fetchedAt>>

\* a first update that leaves the status as it is
JobStartKeepsStatus(p) ==
  /\ proc[p].pc = "pending"
  /\ processingJobs' = updateProcessingJob(processingJobs, proc[p].jobId,
        [ processedItems |-> 0,
          estimatedDuration |-> Len(proc[p].list) * secondsPerCompany ])
  /\ proc' = [proc EXCEPT ![p] = LoopHead([proc[p] EXCEPT !.idx = 1])]
  /\ UNCHANGED <<now, apiKey, lastRequestTime, cache, companies, nextId, fetchedAt>>

\* processBulkCompanies, up to the head of the loop
JobStart(p) ==
  /\ proc[p].pc = "pending"
  /\ processingJobs' = updateProcessingJob(processingJobs, proc[p].jobId,
        [ status |-> "processing", processedItems |-> 0,
          estimatedDuration |-> Len(proc[p].list) * secondsPerCompany ])
  /\ proc' = [proc EXCEPT ![p] = LoopHead([proc[p] EXCEPT !.idx = 1])]
  /\ UNCHANGED <<now, apiKey, lastRequestTime, cache, companies, nextId, fetchedAt>>

\* makeRequest, up to its first await that waits for something
MakeRequest(p) ==
  LET l == proc[p]
      cacheKey == CacheKey(l.call)
      elapsed == now - lastRequestTime
  IN
  /\ l.pc = "call"
  /\ proc' = [proc EXCEPT ![p] =
       IF ~apiKey
       THEN [l EXCEPT !.pc = "ret", !.ret = Err(<<"Companies House API key not configured">>)]
       ELSE IF isValidCache(cacheKey)
       THEN [l EXCEPT !.pc = "ret", !.ret = Ok(cache[cacheKey].data)]
       ELSE IF elapsed < minRequestInterval
       THEN [l EXCEPT !.pc = "gate", !.wake = now + (minRequestInterval - elapsed)]
       ELSE [l EXCEPT !.pc = "fetch", !.sent = @ + 1, !.sentAt = now]]
  /\ UNCHANGED <<now, apiKey, lastRequestTime, cache, companies, processingJobs, nextId, fetchedAt>>

\* the timer of enforceRateLimit fires: the request is sent
GateWake(p) ==
  /\ NoneRunning
  /\ proc[p].pc = "gate"
  /\ now >= proc[p].wake
  /\ proc' = [proc EXCEPT ![p].pc = "fetch", ![p].wake = NoTime,
                          ![p].sent = @ + 1, ![p].sentAt = now]
  /\ UNCHANGED <<now, apiKey, lastRequestTime, cache, companies, processingJobs, nextId, fetchedAt>>

\* parseInt(response.headers.get('Retry-After') || '1', 10) * 1000
\* a wait that takes the header's seconds for milliseconds
retryAfterMsUnscaled(response) ==
  parseInt(IF Falsy(response.retryAfter) THEN defaultRetryAfter ELSE response.retryAfter)

retryAfterMs(response) ==
  parseInt(IF Falsy(response.retryAfter) THEN defaultRetryAfter ELSE response.retryAfter)
  * msPerSecond

\* `${response.status} ${response.statusText}` of the error statuses
StatusText(status) ==
  IF status = 500 THEN "500 Internal Server Error"
  ELSE IF status = 404 THEN "404 Not Found"
  ELSE IF status = 429 THEN "429 Too Many Requests"
  ELSE "other"

\* a 429 branch that retries once and then throws
RateLimitedGivesUp(l, r) ==
  IF l.limited >= 1
  THEN [l EXCEPT !.pc = "ret", !.ret = Err(<<"Companies House API error: ", StatusText(429)>>),
                 !.limited = @ + 1]
  ELSE [l EXCEPT !.pc = "backoff", !.wake = now + retryAfterMs(r), !.limited = @ + 1]

\* the 429 branch: wait as long as the response asks, then call again
RateLimited(l, r) ==
  [l EXCEPT !.pc = "backoff", !.wake = now + retryAfterMs(r), !.limited = @ + 1]

\* one message for every response that is not ok
httpErrorGeneric(status) == <<"Companies House API error: ", StatusText(status)>>

\* the message of the error thrown for a response that is not ok
httpError(status) ==
  IF status = 404 THEN <<"Company not found">>
  ELSE <<"Companies House API error: ", StatusText(status)>>

\* an ok that only the server errors fail
responseOkBelow500(status) == status < 500

\* response.ok: the status is in the range 200-299
responseOk(status) == status \in 200..299

\* the fetch of makeRequest settles with response r
FetchRespond(p, r) ==
  LET l == [proc[p] EXCEPT !.response = [status |-> r.status, retryAfter |-> r.retryAfter]]
      cacheKey == CacheKey(l.call)
  IN
  /\ NoneRunning
  /\ l.pc = "fetch"
  /\ r \in Answers(l.call)
  /\ IF r.status = 0
     THEN /\ proc' = [proc EXCEPT ![p] =
                [proc[p] EXCEPT !.pc = "ret", !.ret = Err(<<"fetch failed">>)]]
          /\ UNCHANGED <<lastRequestTime, cache, fetchedAt>>
     ELSE /\ lastRequestTime' = now
          /\ IF r.status = 429
             THEN /\ proc' = [proc EXCEPT ![p] = RateLimited(l, r)]
                  /\ UNCHANGED <<cache, fetchedAt>>
             ELSE IF ~responseOk(r.status)
             THEN /\ proc' = [proc EXCEPT ![p] =
                        [l EXCEPT !.pc = "ret", !.ret = Err(httpError(r.status))]]
                  /\ UNCHANGED <<cache, fetchedAt>>
             ELSE /\ cache' = CacheSet(cache, cacheKey, [timestamp |-> now, data |-> r.body])
                  /\ fetchedAt' = CacheSet(fetchedAt, cacheKey, now)
                  /\ proc' = [proc EXCEPT ![p] = [l EXCEPT !.pc = "ret", !.ret = Ok(r.body)]]
  /\ UNCHANGED <<now, apiKey, companies, processingJobs, nextId>>

\* the timer of the 429 branch fires: makeRequest is called again
BackoffWake(p) ==
  /\ NoneRunning
  /\ proc[p].pc = "backoff"
  /\ now >= proc[p].wake
  /\ proc' = [proc EXCEPT ![p].pc = "call", ![p].wake = NoTime,
                          ![p].response = NoResponse]
  /\ UNCHANGED <<now, apiKey, lastRequestTime, cache, companies, processingJobs, nextId, fetchedAt>>
\* a validation that requires nothing
MissingFieldsNone(data) == <<>>

\* the fields validateAndEnhanceCompanyData requires, in its order
requiredFields == <<"company_name", "company_number", "company_status">>

MissingFields(data) == SelectSeq(requiredFields, LAMBDA f : Falsy(data[f]))

statusInterpretations ==
  [ x \in {<<"active">>, <<"dissolved">>, <<"liquidation">>, <<"receivership">>,
           <<"converted-closed">>, <<"insolvency-proceedings">>} |->
      IF x = <<"active">> THEN <<"Company is actively trading">>
      ELSE IF x = <<"dissolved">> THEN <<"Company has been dissolved">>
      ELSE IF x = <<"liquidation">> THEN <<"Company is in liquidation">>
      ELSE IF x = <<"receivership">> THEN <<"Company is in receivership">>
      ELSE IF x = <<"converted-closed">> THEN <<"Company has been converted and closed">>
      ELSE <<"Company is undergoing insolvency proceedings">> ]

\* the properties an object literal inherits from Object.prototype
ObjectPrototype ==
  { <<"constructor">>, <<"hasOwnProperty">>, <<"isPrototypeOf">>,
    <<"propertyIsEnumerable">>, <<"toLocaleString">>, <<"toString">>,
    <<"valueOf">>, <<"__proto__">> }

\* the value of an inherited property: a function or an object, no string
Inherited(key) == <<"[inherited ">> \o key \o <<"]">>

\* statusInterpretations[key] || 'Unknown status'
interpretStatus(key) ==
  IF key \in DOMAIN statusInterpretations THEN statusInterpretations[key]
  ELSE IF key \in ObjectPrototype THEN Inherited(key)
  ELSE <<"Unknown status">>

\* validateAndEnhanceCompanyData on a payload with its required fields:
\* the object it returns, which is the object it was given
validateAndEnhanceCompanyData(data) ==
  [data EXCEPT !.data_retrieved_at = now,
               !.status_interpretation = interpretStatus(data.company_status),
               !.age_years = IF Falsy(data.date_of_creation) THEN @
                             ELSE AgeYears(data.date_of_creation, now)]

\* a test of the text alone, whatever the type of the entry
IsSicCodeUntyped(code) ==
  /\ Len(code.text) = 5
  /\ \A i \in 1..5 : code.text[i] \in Digits

\* typeof code === 'string' && code.match(/^\d{5}$/)
IsSicCode(code) ==
  /\ code.type = "string"
  /\ Len(code.text) = 5
  /\ \A i \in 1..5 : code.text[i] \in Digits

\* the codes kept of Array.isArray(sic_codes) ? sic_codes : []
validSicCodes(sic_codes) ==
  SelectSeq(IF sic_codes = None THEN <<>> ELSE sic_codes[1], IsSicCode)

\* ------------------------------------------------------- the estimators
\* a JavaScript number that may be NaN
Number(n) == [nan |-> FALSE, n |-> n]
NaN == [nan |-> TRUE, n |-> 0]

\* a > k and a < k: both false of NaN
Gt(a, k) == ~a.nan /\ a.n > k
Lt(a, k) == ~a.nan /\ a.n < k

Max(a, b) == IF a >= b THEN a ELSE b
Min(a, b) == IF a <= b THEN a ELSE b

\* new Date(value) of a date_of_creation: the date of a "YYYY-MM-DD", and
\* Invalid Date of undefined and of text that is no date
IsIsoDate(s) ==
  /\ Len(s) = 10
  /\ \A i \in {1, 2, 3, 4, 6, 7, 9, 10} : s[i] \in Digits
  /\ s[5] = "-" /\ s[8] = "-"

NewDate(value) ==
  IF IsIsoDate(value) THEN [valid |-> TRUE, year |-> parseInt(SubSeq(value, 1, 4))]
  ELSE [valid |-> FALSE, year |-> 0]

\* Date.prototype.getFullYear: NaN of an Invalid Date
getFullYear(date) == IF date.valid THEN Number(date.year) ELSE NaN

\* new Date(): the model's clock counts from two expiry windows before the
\* turn of the year ThisYear
NewYear == 2 * cacheExpiry
DateAt(t) == [valid |-> TRUE, year |-> IF t < NewYear THEN ThisYear ELSE ThisYear + 1]
Today == DateAt(now)

\* new Date().getFullYear() - incorporationDate.getFullYear()
companyAgeOf(incorporationDate) ==
  IF incorporationDate.valid THEN Number(Today.year - incorporationDate.year) ELSE NaN

\* code.startsWith(prefix) of a string
StartsWith(text, prefix) ==
  Len(text) >= Len(prefix) /\ SubSeq(text, 1, Len(prefix)) = prefix

\* sicCodes.some(code => code.startsWith(prefix))
SomeStartsWith(sicCodes, prefix) ==
  \E i \in 1..Len(sicCodes) : StartsWith(sicCodes[i].text, prefix)

\* the same call throws a TypeError when it reaches an entry that is no
\* string (a number has no startsWith) before it finds a match
StartsWithThrows(sicCodes, prefix) ==
  \E i \in 1..Len(sicCodes) :
     /\ sicCodes[i].type # "string"
     /\ \A j \in 1..(i - 1) : ~StartsWith(sicCodes[j].text, prefix)

\* the base estimate: the bracket of the first sector rule that matches
baseEmployees(companyAge, sicCodes) ==
  IF SomeStartsWith(sicCodes, <<"4", "3">>)
  THEN Max(1, Min(4, IF Gt(companyAge, 5) THEN 3 ELSE 2))
  ELSE IF SomeStartsWith(sicCodes, <<"4", "1">>)
  THEN Max(2, Min(8, IF Gt(companyAge, 10) THEN 6 ELSE 3))
  ELSE IF SomeStartsWith(sicCodes, <<"4", "2">>)
  THEN Max(5, Min(15, IF Gt(companyAge, 15) THEN 12 ELSE 7))
  ELSE IF SomeStartsWith(sicCodes, <<"8", "1">>)
  THEN Max(1, Min(3, IF Gt(companyAge, 3) THEN 2 ELSE 1))
  ELSE Max(1, Min(5, IF Gt(companyAge, 8) THEN 4 ELSE 2))

\* an estimate without the cap of 12
estimateEmployeeCountUncapped(companyData, sicCodes) ==
  LET companyAge == companyAgeOf(NewDate(companyData.date_of_creation))
      base == baseEmployees(companyAge, sicCodes)
  IN Max(1, IF Gt(companyAge, 20) THEN (base * 15) \div 10
            ELSE IF Gt(companyAge, 10) THEN (base * 13) \div 10
            ELSE IF Gt(companyAge, 5) THEN (base * 11) \div 10
            ELSE base)

\* EnhancementService.estimateEmployeeCount; Math.floor(base * 1.5) is
\* (base * 15) \div 10: the bases are at most 12, and for them the product
\* of doubles floors as the exact product does
estimateEmployeeCount(companyData, sicCodes) ==
  LET companyAge == companyAgeOf(NewDate(companyData.date_of_creation))
      base == baseEmployees(companyAge, sicCodes)
  IN Max(1, Min(IF Gt(companyAge, 20) THEN (base * 15) \div 10
                ELSE IF Gt(companyAge, 10) THEN (base * 13) \div 10
                ELSE IF Gt(companyAge, 5) THEN (base * 11) \div 10
                ELSE base, 12))

\* EnhancementService.estimateRevenue, the efficiency factor in hundredths
estimateRevenue(employeeCount, sicCodes) ==
  LET revenuePerEmployee ==
        IF SomeStartsWith(sicCodes, <<"4", "3">>) THEN 48000
        ELSE IF SomeStartsWith(sicCodes, <<"4", "1">>) THEN 62000
        ELSE IF SomeStartsWith(sicCodes, <<"4", "2">>) THEN 75000
        ELSE IF SomeStartsWith(sicCodes, <<"8", "1">>) THEN 35000
        ELSE 55000
      efficiencyFactor ==
        IF employeeCount <= 2 THEN 75
        ELSE IF employeeCount <= 5 THEN 85
        ELSE IF employeeCount <= 10 THEN 95
        ELSE 100
  IN (employeeCount * revenuePerEmployee * efficiencyFactor) \div 100

\* an adjustment without the discount for companies under 2 years
maturityBonusNoDiscount(companyAge) ==
  IF Gt(companyAge, 15) THEN 115
  ELSE IF Gt(companyAge, 8) THEN 108
  ELSE IF Gt(companyAge, 3) THEN 102
  ELSE 100

\* the maturity adjustment of estimateValuation, in hundredths
maturityBonus(companyAge) ==
  IF Gt(companyAge, 15) THEN 115
  ELSE IF Gt(companyAge, 8) THEN 108
  ELSE IF Gt(companyAge, 3) THEN 102
  ELSE IF Lt(companyAge, 2) THEN 85
  ELSE 100

\* the liquidity discount of estimateValuation, in hundredths
liquidityDiscount(employeeCount) ==
  IF employeeCount <= 2 THEN 75
  ELSE IF employeeCount <= 5 THEN 85
  ELSE 90

\* the sector multiple of estimateValuation, in tenths
revenueMultiple(sicCodes) ==
  IF SomeStartsWith(sicCodes, <<"4", "3">>) THEN 6
  ELSE IF SomeStartsWith(sicCodes, <<"4", "1">>) THEN 9
  ELSE IF SomeStartsWith(sicCodes, <<"4", "2">>) THEN 12
  ELSE IF SomeStartsWith(sicCodes, <<"8", "1">>) THEN 5
  ELSE 8

\* EnhancementService.estimateValuation: the floor of the product, taken in
\* two steps to stay within the integers.  For every revenue, head count,
\* sector and age the handlers pass together, the product of doubles floors
\* as the exact product does
estimateValuation(revenue, employeeCount, sicCodes, companyAge) ==
  LET scaled == revenue * revenueMultiple(sicCodes) * maturityBonus(companyAge)
      discount == liquidityDiscount(employeeCount)
  IN (scaled \div 100000) * discount + ((scaled % 100000) * discount) \div 100000

\* getCompanyDetails returns in the loop body: validation, enrichment, save
DetailsReturn(p) ==
  LET l == proc[p]
      cacheKey == CacheKey(l.call)
      data == l.ret.data
      missing == MissingFields(data)
      companyData == validateAndEnhanceCompanyData(data)
      incorporationDate == NewDate(companyData.date_of_creation)
      companyAge == companyAgeOf(incorporationDate)
      sicCodes == validSicCodes(companyData.sic_codes)
      employeeCount == estimateEmployeeCount(companyData, sicCodes)
      estimatedRevenue == estimateRevenue(employeeCount, sicCodes)
      estimatedValuation ==
        estimateValuation(estimatedRevenue, employeeCount, sicCodes, companyAge)
      savedCompany == createCompany(
          [ companyNumber |-> companyData.company_number,
            companyName |-> companyData.company_name,
            status |-> companyData.company_status,
            incorporationDate |-> incorporationDate,
            sicCodes |-> sicCodes,
            employeeCount |-> employeeCount,
            estimatedRevenue |-> IntToString(estimatedRevenue),
            estimatedValuation |-> IntToString(estimatedValuation) ], nextId)
  IN
  /\ l.kind = "bulk"
  /\ l.pc = "ret" /\ l.ret.ok /\ l.call.kind = "details"
  /\ IF missing # <<>>
     THEN /\ proc' = [proc EXCEPT ![p] =
                Catch(l, <<"Missing required field: ", Head(missing)>>)]
          /\ UNCHANGED <<cache, companies, nextId, fetchedAt>>
     ELSE \* data is the object the cache entry holds: it is written in place
          /\ cache' = [cache EXCEPT ![cacheKey].data = companyData]
          /\ companies' = Append(companies, savedCompany)
          /\ nextId' = nextId + 1
          /\ proc' = [proc EXCEPT ![p] =
                [EndCall(l) EXCEPT !.pc = "delay", !.wake = now + itemDelay,
                                   !.results = Append(@, savedCompany),
                                   !.processedCount = @ + 1,
                                   !.outcome = Append(@, TRUE)]]
  /\ UNCHANGED <<now, apiKey, lastRequestTime, processingJobs, fetchedAt>>

\* searchResults.find(...) || searchResults[0]; TypeError when the callback
\* reaches a result without a title before it finds a match
Matches(result, query) ==
  \/ Includes(ToLowerCase(result.title), ToLowerCase(query))
  \/ Includes(ToLowerCase(query), ToLowerCase(result.title))

FindThrows(searchResults, query) ==
  \E i \in 1..Len(searchResults) :
     /\ searchResults[i].title = Undefined
     /\ \A j \in 1..(i - 1) : ~Matches(searchResults[j], query)

bestMatch(searchResults, query) ==
  IF \E i \in 1..Len(searchResults) : Matches(searchResults[i], query)
  THEN LET i == CHOOSE i \in 1..Len(searchResults) :
                  /\ Matches(searchResults[i], query)
                  /\ \A j \in 1..(i - 1) : ~Matches(searchResults[j], query)
       IN searchResults[i]
  ELSE searchResults[1]

\* searchCompany returns in the loop body: variations, best match
SearchReturn(p) ==
  LET l == proc[p]
      searchResults == l.ret.data.items
      q == companyQuery(l)
  IN
  /\ l.kind = "bulk"
  /\ l.pc = "ret" /\ l.ret.ok /\ l.call.kind = "search"
  /\ proc' = [proc EXCEPT ![p] =
       IF searchResults = <<>>
       THEN IF l.variation < Len(Variations(q))
            THEN StartCall([l EXCEPT !.variation = @ + 1],
                           SearchCall(Variations(q)[l.variation + 1]))
            ELSE Catch(l, <<"Company \"">> \o q \o <<"\" not found in Companies House registry.">>)
       ELSE IF FindThrows(searchResults, q)
       THEN Catch(l, <<"Cannot read properties of undefined (reading 'toLowerCase')">>)
       ELSE StartCall(l, DetailsCall(bestMatch(searchResults, q).company_number))]
  /\ UNCHANGED <<now, apiKey, lastRequestTime, cache, companies, processingJobs, nextId, fetchedAt>>

\* a client call throws in the loop body
CallThrows(p) ==
  /\ proc[p].kind = "bulk"
  /\ proc[p].pc = "ret" /\ ~proc[p].ret.ok
  /\ proc' = [proc EXCEPT ![p] = Catch(proc[p], proc[p].ret.error)]
  /\ UNCHANGED <<now, apiKey, lastRequestTime, cache, companies, processingJobs, nextId, fetchedAt>>

\* the 100 ms pause after a saved item ends
DelayWake(p) ==
  /\ NoneRunning
  /\ proc[p].pc = "delay"
  /\ now >= proc[p].wake
  /\ proc' = [proc EXCEPT ![p].pc = "progress", ![p].wake = NoTime]
  /\ UNCHANGED <<now, apiKey, lastRequestTime, cache, companies, processingJobs, nextId, fetchedAt>>

\* the progress update that ends each iteration
JobProgress(p) ==
  LET l == proc[p] IN
  /\ l.pc = "progress"
  /\ processingJobs' = updateProcessingJob(processingJobs, l.jobId,
        [processedItems |-> l.processedCount, failedItems |-> l.failedCount])
  /\ proc' = [proc EXCEPT ![p] = LoopHead([l EXCEPT !.idx = @ + 1])]
  /\ UNCHANGED <<now, apiKey, lastRequestTime, cache, companies, nextId, fetchedAt>>

\* a final status that any failed item turns to "failed"
FinalStatusNoFailure(l) == IF l.failedCount = 0 THEN "completed" ELSE "failed"

\* processedCount > 0 ? "completed" : "failed"
FinalStatus(l) == IF l.processedCount > 0 THEN "completed" ELSE "failed"

\* the update that completes the job
JobFinal(p) ==
  LET l == proc[p] IN
  /\ l.pc = "final"
  /\ processingJobs' = updateProcessingJob(processingJobs, l.jobId,
        [ status |-> FinalStatus(l),
          results |-> Some(l.results),
          errorLog |-> Some(l.errors),
          actualDuration |-> (now - l.startTime) \div msPerSecond ])
  /\ proc' = [proc EXCEPT ![p].pc = "done"]
  /\ UNCHANGED <<now, apiKey, lastRequestTime, cache, companies, nextId, fetchedAt>>

\* GET /api/company?company=query (cache=false when ~useCache, enhance=true
\* when enhance; without filing-history): up to the first call of the
\* registry client
CompanyLookup(p, query, useCache, enhance) ==
  LET existingCompany ==
        IF ~useCache THEN None
        ELSE IF IsCompanyNumber(query) THEN getCompanyByNumber(query)
        ELSE searchCompanies(query)
      l == [InitLocal EXCEPT !.kind = "lookup", !.list = <<query>>, !.idx = 1,
                             !.useCache = useCache, !.enhance = enhance]
  IN
  /\ NoneRunning
  /\ proc[p].pc = "idle"
  /\ proc' = [proc EXCEPT ![p] =
       IF existingCompany # None
       THEN [l EXCEPT !.pc = "answered",
                      !.answer = Answer(200, TRUE, existingCompany, <<>>)]
       ELSE StartCall(l, IF IsCompanyNumber(query)
                         THEN DetailsCall(query)
                         ELSE SearchCall(query))]
  /\ UNCHANGED <<now, apiKey, lastRequestTime, cache, companies, processingJobs, nextId, fetchedAt>>

\* searchCompany returns in the lookup: 404, or the first result's details
LookupSearchReturn(p) ==
  LET l == proc[p]
      searchResults == l.ret.data.items
  IN
  /\ l.kind = "lookup"
  /\ l.pc = "ret" /\ l.ret.ok /\ l.call.kind = "search"
  /\ proc' = [proc EXCEPT ![p] =
       IF searchResults = <<>>
       THEN [EndCall(l) EXCEPT !.pc = "answered",
                               !.answer = Answer(404, FALSE, None, <<"Company not found">>)]
       ELSE StartCall(l, DetailsCall(searchResults[1].company_number))]
  /\ UNCHANGED <<now, apiKey, lastRequestTime, cache, companies, processingJobs, nextId, fetchedAt>>

\* getCompanyDetails returns in the lookup: validation, save, answer
LookupDetailsReturn(p) ==
  LET l == proc[p]
      cacheKey == CacheKey(l.call)
      data == l.ret.data
      missing == MissingFields(data)
      companyData == validateAndEnhanceCompanyData(data)
      \* companyData.sic_codes || []
      sicCodes == IF companyData.sic_codes = None THEN <<>> ELSE companyData.sic_codes[1]
      incorporationDate == NewDate(companyData.date_of_creation)
      companyAge == companyAgeOf(incorporationDate)
      employeeCount == estimateEmployeeCount(companyData, sicCodes)
      estimatedRevenue == estimateRevenue(employeeCount, sicCodes)
      estimatedValuation ==
        estimateValuation(estimatedRevenue, employeeCount, sicCodes, companyAge)
      \* { ...enhancedData }: the derived fields, or none of them
      newCompany == createCompany(
          [ companyNumber |-> companyData.company_number,
            companyName |-> companyData.company_name,
            status |-> companyData.company_status,
            incorporationDate |-> incorporationDate,
            sicCodes |-> sicCodes,
            employeeCount |-> IF l.enhance THEN employeeCount ELSE NoTime,
            estimatedRevenue |->
              IF l.enhance THEN IntToString(estimatedRevenue) ELSE Undefined,
            estimatedValuation |->
              IF l.enhance THEN IntToString(estimatedValuation) ELSE Undefined ], nextId)
  IN
  /\ l.kind = "lookup"
  /\ l.pc = "ret" /\ l.ret.ok /\ l.call.kind = "details"
  /\ IF missing # <<>>
     THEN /\ proc' = [proc EXCEPT ![p] =
                [EndCall(l) EXCEPT !.pc = "answered",
                     !.answer = Answer(500, FALSE, None,
                                       <<"Missing required field: ", Head(missing)>>)]]
          /\ UNCHANGED <<cache, companies, nextId>>
     ELSE /\ cache' = [cache EXCEPT ![cacheKey].data = companyData]
          /\ IF l.enhance /\ StartsWithThrows(sicCodes, <<"4", "3">>)
             THEN \* the estimator throws on an entry that is no string
                  /\ proc' = [proc EXCEPT ![p] =
                        [EndCall(l) EXCEPT !.pc = "answered",
                             !.answer = Answer(500, FALSE, None,
                                               <<"code.startsWith is not a function">>)]]
                  /\ UNCHANGED <<companies, nextId>>
             ELSE /\ companies' = Append(companies, newCompany)
                  /\ nextId' = nextId + 1
                  /\ proc' = [proc EXCEPT ![p] =
                        [EndCall(l) EXCEPT !.pc = "answered",
                             !.answer = Answer(200, FALSE, Some(newCompany), <<>>)]]
  /\ UNCHANGED <<now, apiKey, lastRequestTime, processingJobs, fetchedAt>>

\* a client call throws in the lookup: the handler answers 500
LookupThrows(p) ==
  /\ proc[p].kind = "lookup"
  /\ proc[p].pc = "ret" /\ ~proc[p].ret.ok
  /\ proc' = [proc EXCEPT ![p] =
       [EndCall(proc[p]) EXCEPT !.pc = "answered",
            !.answer = Answer(500, FALSE, None, proc[p].ret.error)]]
  /\ UNCHANGED <<now, apiKey, lastRequestTime, cache, companies, processingJobs, nextId, fetchedAt>>

\* POST /api/clear-data: MemStorage.clearAllData
ClearData ==
  /\ NoneRunning
  /\ companies' = <<>>
  /\ processingJobs' = <<>>
  /\ UNCHANGED <<now, apiKey, lastRequestTime, cache, nextId, proc, fetchedAt>>

\* the processes waiting for a timer, and the first instant one is due
Sleepers == {p \in DOMAIN proc : proc[p].pc \in {"gate", "backoff", "delay"}}

NextWake == CHOOSE t \in {proc[p].wake : p \in Sleepers} :
               \A q \in Sleepers : t <= proc[q].wake

\* time passes until the next timer is due
TimerTick ==
  /\ NoneRunning
  /\ Sleepers # {}
  /\ NextWake > now
  /\ InClockRange(NextWake)
  /\ now' = NextWake
  /\ UNCHANGED <<apiKey, lastRequestTime, cache, companies, processingJobs, nextId, proc, fetchedAt>>

Next ==
  \/ \E p \in DOMAIN proc, list \in BulkLists : BulkProcess(p, list)
  \/ \E p \in DOMAIN proc : JobStart(p)
  \/ \E p \in DOMAIN proc : MakeRequest(p)
  \/ \E p \in DOMAIN proc : GateWake(p)
  \/ \E p \in DOMAIN proc, r \in UNION {Responses(proc[q].call) : q \in DOMAIN proc} : FetchRespond(p, r)
  \/ \E p \in DOMAIN proc : BackoffWake(p)
  \/ \E p \in DOMAIN proc : DetailsReturn(p)
  \/ \E p \in DOMAIN proc : SearchReturn(p)
  \/ \E p \in DOMAIN proc : CallThrows(p)
  \/ \E p \in DOMAIN proc : DelayWake(p)
  \/ \E p \in DOMAIN proc : JobProgress(p)
  \/ \E p \in DOMAIN proc : JobFinal(p)
  \/ \E p \in DOMAIN proc, query \in Queries, useCache \in BOOLEAN, enhance \in BOOLEAN :
        CompanyLookup(p, query, useCache, enhance)
  \/ \E p \in DOMAIN proc : LookupSearchReturn(p)
  \/ \E p \in DOMAIN proc : LookupDetailsReturn(p)
  \/ \E p \in DOMAIN proc : LookupThrows(p)
  \/ ClearData
  \/ TimerTick

Spec == Init /\ [][Next]_vars

\* Two requests in the server at once: a bulk request of one identifier and
\* a single lookup, or two of a kind
InitTwo ==
  /\ now = cacheExpiry
  /\ apiKey = TRUE
  /\ lastRequestTime = 0
  /\ cache = <<>>
  /\ companies = <<>>
  /\ processingJobs = <<>>
  /\ nextId = 1
  /\ proc = [p \in {1, 2} |-> InitLocal]
  /\ fetchedAt = <<>>

\* the answers of a registry that is up: found, not found, or slow down
ResponsesUp(call) ==
  { r \in Responses(call) :
       \/ r.status = 404
       \/ r.status = 429 /\ r.retryAfter = Undefined
       \/ r.status = 200 /\ r.body \in {GoodBody(call.arg), [items |-> <<>>],
                                         [items |-> <<CandOther, CandAcme>>]} }

NextTwo ==
  \/ \E p \in DOMAIN proc, list \in ListsOfLen(1) : BulkProcess(p, list)
  \/ \E p \in DOMAIN proc : JobStart(p)
  \/ \E p \in DOMAIN proc : MakeRequest(p)
  \/ \E p \in DOMAIN proc : GateWake(p)
  \/ \E p \in DOMAIN proc, r \in UNION {ResponsesUp(proc[q].call) : q \in DOMAIN proc} : FetchRespond(p, r)
  \/ \E p \in DOMAIN proc : BackoffWake(p)
  \/ \E p \in DOMAIN proc : DetailsReturn(p)
  \/ \E p \in DOMAIN proc : SearchReturn(p)
  \/ \E p \in DOMAIN proc : CallThrows(p)
  \/ \E p \in DOMAIN proc : DelayWake(p)
  \/ \E p \in DOMAIN proc : JobProgress(p)
  \/ \E p \in DOMAIN proc : JobFinal(p)
  \/ \E p \in DOMAIN proc, query \in {NumberA, NameAcme}, useCache \in BOOLEAN :
        CompanyLookup(p, query, useCache, FALSE)
  \/ \E p \in DOMAIN proc : LookupSearchReturn(p)
  \/ \E p \in DOMAIN proc : LookupDetailsReturn(p)
  \/ \E p \in DOMAIN proc : LookupThrows(p)
  \/ TimerTick

SpecTwo == InitTwo /\ [][NextTwo]_vars

\* A bulk request that begins with a name to search for, against a registry
\* that is up, followed for as long as the searches of a name take
InitNames ==
  /\ now = cacheExpiry
  /\ apiKey = TRUE
  /\ lastRequestTime = 0
  /\ cache = <<>>
  /\ companies = <<>>
  /\ processingJobs = <<>>
  /\ nextId = 1
  /\ proc = [p \in Procs |-> InitLocal]
  /\ fetchedAt = <<>>

NameLists == {list \in ListsOfLen(1) \cup ListsOfLen(2) : list[1] = NameSpaced}

TimerTickNames ==
  /\ NoneRunning
  /\ Sleepers # {}
  /\ NextWake > now
  /\ NextWake <= cacheExpiry + MaxTicksNames * itemDelay
  /\ now' = NextWake
  /\ UNCHANGED <<apiKey, lastRequestTime, cache, companies, processingJobs, nextId, proc, fetchedAt>>

NextNames ==
  \/ \E p \in DOMAIN proc, list \in NameLists : BulkProcess(p, list)
  \/ \E p \in DOMAIN proc : JobStart(p)
  \/ \E p \in DOMAIN proc : MakeRequest(p)
  \/ \E p \in DOMAIN proc : GateWake(p)
  \/ \E p \in DOMAIN proc, r \in UNION {ResponsesUp(proc[q].call) : q \in DOMAIN proc} : FetchRespond(p, r)
  \/ \E p \in DOMAIN proc : BackoffWake(p)
  \/ \E p \in DOMAIN proc : DetailsReturn(p)
  \/ \E p \in DOMAIN proc : SearchReturn(p)
  \/ \E p \in DOMAIN proc : CallThrows(p)
  \/ \E p \in DOMAIN proc : DelayWake(p)
  \/ \E p \in DOMAIN proc : JobProgress(p)
  \/ \E p \in DOMAIN proc : JobFinal(p)
  \/ TimerTickNames

SpecNames == InitNames /\ [][NextNames]_vars

\* One request for the company NumberA, bulk or single, against a registry
\* that answers with records of many ages and sectors, or asks for an hour's
\* wait, which takes the clock past the turn of the year
InitEnrich ==
  /\ now = cacheExpiry
  /\ apiKey = TRUE
  /\ lastRequestTime = 0
  /\ cache = <<>>
  /\ companies = <<>>
  /\ processingJobs = <<>>
  /\ nextId = 1
  /\ proc = [p \in Procs |-> InitLocal]
  /\ fetchedAt = <<>>

NextEnrich ==
  \/ \E p \in DOMAIN proc : BulkProcess(p, <<NumberA>>)
  \/ \E p \in DOMAIN proc : JobStart(p)
  \/ \E p \in DOMAIN proc : MakeRequest(p)
  \/ \E p \in DOMAIN proc, r \in UNION {ResponsesEnrich(proc[q].call) : q \in DOMAIN proc} : FetchRespond(p, r)
  \/ \E p \in DOMAIN proc : BackoffWake(p)
  \/ \E p \in DOMAIN proc : DetailsReturn(p)
  \/ \E p \in DOMAIN proc : DelayWake(p)
  \/ \E p \in DOMAIN proc : JobProgress(p)
  \/ \E p \in DOMAIN proc : JobFinal(p)
  \/ \E p \in DOMAIN proc, enhance \in BOOLEAN : CompanyLookup(p, NumberA, FALSE, enhance)
  \/ \E p \in DOMAIN proc : LookupDetailsReturn(p)
  \/ TimerTick

SpecEnrich == InitEnrich /\ [][NextEnrich]_vars

\* ============================================================== claims
StoredJobs == DOMAIN processingJobs

\* the processors whose job is in the job table
Tracked == {p \in DOMAIN proc : proc[p].kind = "bulk" /\ proc[p].jobId \in StoredJobs}

JobOf(p) == processingJobs[proc[p].jobId]

Indices(seq) == [i \in 1..Len(seq) |-> i]

\* the identifiers of the items that ended as ok says, in input order
ItemsEnded(l, ok) ==
  LET idxs == SelectSeq(Indices(l.outcome), LAMBDA i : l.outcome[i] = ok)
  IN [k \in 1..Len(idxs) |-> l.list[idxs[k]]]

\* C1: in every state of a job's run the stored counters satisfy
\* processedItems + failedItems <= totalItems.
C1_CountersWithinTotal ==
  \A id \in StoredJobs :
     processingJobs[id].processedItems + processingJobs[id].failedItems
        <= processingJobs[id].totalItems

C1_Witness ==
  \E id \in StoredJobs :
     /\ processingJobs[id].status = "processing"
     /\ processingJobs[id].processedItems >= 1
     /\ processingJobs[id].failedItems >= 1
     /\ processingJobs[id].processedItems + processingJobs[id].failedItems
           < processingJobs[id].totalItems

\* C2: a job with a terminal status has processedItems + failedItems equal to
\* totalItems, which is the length of its identifier list.
C2_TerminalCountersEqualTotal ==
  \A p \in Tracked :
     JobOf(p).status \in Terminal =>
        /\ JobOf(p).processedItems + JobOf(p).failedItems = JobOf(p).totalItems
        /\ JobOf(p).totalItems = Len(proc[p].list)

C2_Witness ==
  \E p \in Tracked :
     /\ JobOf(p).status \in Terminal
     /\ JobOf(p).totalItems = 3
     /\ JobOf(p).processedItems >= 1
     /\ JobOf(p).failedItems >= 1

\* C3: the terminal status is "completed" exactly when at least one item
\* succeeded and "failed" exactly when none did.
C3_TerminalStatusBySuccess ==
  \A p \in Tracked :
     JobOf(p).status \in Terminal =>
        /\ JobOf(p).status = "completed" <=> (\E i \in 1..Len(proc[p].outcome) : proc[p].outcome[i])
        /\ JobOf(p).status = "failed" <=> (\A i \in 1..Len(proc[p].outcome) : ~proc[p].outcome[i])

C3_Witness ==
  \E p \in Tracked :
     /\ JobOf(p).status = "completed"
     /\ \E i, j \in 1..Len(proc[p].outcome) : proc[p].outcome[i] /\ ~proc[p].outcome[j]

\* C4: a stored status only moves pending -> processing -> completed or
\* failed: a new job starts pending, no step skips processing, goes back or
\* leaves a terminal status.
C4_StatusMoves ==
  [][ \A id \in DOMAIN processingJobs' :
        IF id \in StoredJobs
        THEN \/ processingJobs'[id].status = processingJobs[id].status
             \/ /\ processingJobs[id].status = "pending"
                /\ processingJobs'[id].status = "processing"
             \/ /\ processingJobs[id].status = "processing"
                /\ processingJobs'[id].status \in Terminal
        ELSE processingJobs'[id].status = "pending" ]_vars

C4_Witness ==
  \E p \in Tracked :
     /\ JobOf(p).status \in Terminal
     /\ JobOf(p).updatedAt > JobOf(p).createdAt

\* C5: completedAt is null exactly while the status is pending or processing,
\* is set to the current time by the update that makes the status terminal,
\* and the record is not written again afterwards.
C5_CompletedOnce ==
  [][ \A id \in DOMAIN processingJobs' :
        /\ processingJobs'[id].status \in Terminal <=> processingJobs'[id].completedAt # NoTime
        /\ id \in StoredJobs =>
             /\ processingJobs[id].status \in Terminal =>
                   processingJobs'[id] = processingJobs[id]
             /\ (processingJobs[id].status \notin Terminal
                 /\ processingJobs'[id].status \in Terminal) =>
                   processingJobs'[id].completedAt = now' ]_vars

C5_Witness ==
  \E p \in Tracked :
     /\ JobOf(p).status \in Terminal
     /\ JobOf(p).completedAt # NoTime
     /\ JobOf(p).completedAt > JobOf(p).createdAt
     /\ proc[p].pc = "done"

\* C6: whatever fails in an item, the loop goes on: the items are begun in
\* input order, each once, every begun item ends as a success or as a logged
\* failure, and a processor that is done has begun every item of its list.
C6_EveryItemAttemptedOnce ==
  \A p \in DOMAIN proc :
     LET l == proc[p] IN
     /\ l.attempted = Indices(l.attempted)
     /\ Len(l.attempted) <= Len(l.list)
     /\ Len(l.outcome) \in {Len(l.attempted) - 1, Len(l.attempted)}
     /\ Len(l.outcome) = l.processedCount + l.failedCount
     /\ l.pc \in {"final", "done"} =>
           /\ Len(l.attempted) = Len(l.list)
           /\ Len(l.outcome) = Len(l.list)

C6_Witness ==
  \E p \in DOMAIN proc :
     /\ proc[p].pc = "done"
     /\ Len(proc[p].list) = 3
     /\ proc[p].outcome = <<FALSE, FALSE, TRUE>>
     /\ proc[p].attempted = <<1, 2, 3>>
     /\ \E i, j \in 1..2 : proc[p].errors[i].error # proc[p].errors[j].error

\* C7: a completed job's error log has one entry per failed item, in input
\* order, with the item's identifier and a message; its result list has one
\* saved record per successful item, in input order; their lengths are
\* failedItems and processedItems.
C7_LogsMatchOutcomes ==
  \A p \in Tracked :
     JobOf(p).status \in Terminal =>
        /\ JobOf(p).errorLog # None /\ JobOf(p).results # None
        /\ LET errorLog == JobOf(p).errorLog[1]
               results == JobOf(p).results[1]
               failed == ItemsEnded(proc[p], FALSE)
               saved == ItemsEnded(proc[p], TRUE)
           IN /\ [k \in 1..Len(errorLog) |-> errorLog[k].company] = failed
              /\ \A k \in 1..Len(errorLog) : errorLog[k].error # <<>>
              /\ Len(errorLog) = JobOf(p).failedItems
              /\ Len(results) = Len(saved)
              /\ Len(results) = JobOf(p).processedItems
              /\ \A k \in 1..Len(results) :
                    /\ results[k].id < nextId
                    /\ \A m \in 1..(k - 1) : results[m].id < results[k].id
                    /\ IsCompanyNumber(saved[k]) => results[k].companyNumber = saved[k]

C7_Witness ==
  \E p \in Tracked :
     /\ Len(proc[p].list) = 3
     /\ proc[p].outcome = <<TRUE, FALSE, TRUE>>
     /\ JobOf(p).status = "completed"
     /\ JobOf(p).processedItems = 2
     /\ JobOf(p).failedItems = 1
     /\ Len(JobOf(p).errorLog[1]) = 1
     /\ JobOf(p).errorLog[1][1].company = proc[p].list[2]
     /\ JobOf(p).errorLog[1][1].error = <<"Company not found">>

\* C8 (its safety part): the record of a job that has been started stays in
\* the job table, and when its processor has finished the record has a
\* terminal status.
C8_StartedJobEndsStored ==
  \A p \in DOMAIN proc :
     proc[p].kind = "bulk" =>
        /\ proc[p].jobId \in StoredJobs
        /\ proc[p].pc = "done" => JobOf(p).status \in Terminal

\* C9: a request whose key was fetched successfully less than cacheExpiry ago
\* is answered from the cache in the step that makes it: it gets the cached
\* data, is neither sent nor held at the gate, and lastRequestTime, the cache
\* and the clock stay as they are.
C9_HitWithinWindow ==
  [][ \A p \in DOMAIN proc :
        LET cacheKey == CacheKey(proc[p].call) IN
        ( /\ proc[p].pc = "call"
          /\ proc'[p].pc # "call"
          /\ cacheKey \in DOMAIN fetchedAt
          /\ now - fetchedAt[cacheKey] < cacheExpiry )
        => /\ cacheKey \in DOMAIN cache
           /\ proc'[p].pc = "ret"
           /\ proc'[p].ret = Ok(cache[cacheKey].data)
           /\ lastRequestTime' = lastRequestTime
           /\ cache' = cache
           /\ now' = now ]_vars

C9_Witness ==
  \E p \in DOMAIN proc :
     LET cacheKey == CacheKey(proc[p].call) IN
     /\ proc[p].pc = "ret"
     /\ proc[p].ret.ok
     /\ cacheKey \in DOMAIN fetchedAt
     /\ now - fetchedAt[cacheKey] >= minRequestInterval
     /\ lastRequestTime < now

\* C10: the payload of a cache entry is not modified while the entry stands
\* (so that the calls served from one entry return the same data): a step
\* that keeps an entry's timestamp keeps its data.
C10_CachedPayloadUnmodified ==
  [][ \A cacheKey \in DOMAIN cache \cap DOMAIN cache' :
        cache'[cacheKey].timestamp = cache[cacheKey].timestamp
           => cache'[cacheKey].data = cache[cacheKey].data ]_vars

\* C11: an entry that is cacheExpiry old or older is not served: a request
\* for its key goes to the gate or to the registry, a request only returns
\* data whose entry is younger than cacheExpiry, and a 2xx response puts the
\* fresh payload in the entry with the current time as its timestamp.
C11_ExpiredEntryRefetched ==
  [][ \A p \in DOMAIN proc :
        LET cacheKey == CacheKey(proc[p].call) IN
        /\ ( /\ proc[p].pc = "call" /\ proc'[p].pc # "call"
             /\ apiKey
             /\ cacheKey \in DOMAIN cache
             /\ now - cache[cacheKey].timestamp >= cacheExpiry )
           => proc'[p].pc \in {"gate", "fetch"}
        /\ ( proc[p].pc # "ret" /\ proc'[p].pc = "ret" /\ proc'[p].ret.ok )
           => /\ cacheKey \in DOMAIN cache'
              /\ now' - cache'[cacheKey].timestamp < cacheExpiry
              /\ cache'[cacheKey].data = proc'[p].ret.data
        /\ ( proc[p].pc = "fetch" /\ proc'[p].pc = "ret" /\ proc'[p].ret.ok )
           => cache'[cacheKey].timestamp = now' ]_vars

\* a detail fetch has just refreshed the entry of a company that was saved
\* from the same entry more than cacheExpiry ago
C11_Witness ==
  \E p \in DOMAIN proc :
     LET cacheKey == CacheKey(proc[p].call) IN
     /\ proc[p].pc = "ret" /\ proc[p].ret.ok
     /\ proc[p].call.kind = "details"
     /\ cacheKey \in DOMAIN cache
     /\ cache[cacheKey].timestamp = now
     /\ \E i \in 1..Len(companies) :
           /\ companies[i].companyNumber = proc[p].call.arg
           /\ companies[i].createdAt + cacheExpiry <= now

\* C12: a request a caller sends follows the request the same caller sent
\* before it by at least minRequestInterval, however that one ended.
C12_CallerRequestsSpaced ==
  [][ \A p \in DOMAIN proc :
        (proc[p].pc # "fetch" /\ proc'[p].pc = "fetch" /\ proc[p].sentAt # NoTime)
           => now' - proc[p].sentAt >= minRequestInterval ]_vars

\* C13: with several callers at once, a request that is sent follows every
\* request sent before it, by whichever caller, by at least
\* minRequestInterval.
C13_GateSerializes ==
  [][ \A p, q \in DOMAIN proc :
        (proc[p].pc # "fetch" /\ proc'[p].pc = "fetch" /\ proc[q].sentAt # NoTime)
           => now' - proc[q].sentAt >= minRequestInterval ]_vars

\* the seconds a Retry-After header of the model asks for
AskedSeconds(header) ==
  IF header = Undefined THEN 1
  ELSE IF header = <<"3", "6", "0", "0">> THEN 3600
  ELSE 0

\* C14: a request answered 429 is suspended, not ended; it leaves the
\* suspension no earlier than the header's seconds (1 without a header) after
\* the 429 arrived, by calling again with the same endpoint and parameters;
\* and what the caller gets is never the 429: a result only comes with a
\* response that is not a 429, and never with the error of one.
C14_RetryAfterObeyed ==
  [][ \A p \in DOMAIN proc :
        LET l == proc[p]
            l2 == proc'[p]
        IN
        /\ (l.pc = "fetch" /\ l2.pc # "fetch" /\ l2.response.status = 429)
              => l2.pc = "backoff"
        /\ (l.pc = "backoff" /\ l2.pc # "backoff")
              => /\ l.response.status = 429
                 /\ now >= lastRequestTime + AskedSeconds(l.response.retryAfter) * msPerSecond
                 /\ l2.pc = "call"
                 /\ l2.call = l.call
                 /\ CacheKey(l2.call) = CacheKey(l.call)
        /\ (l.pc # "ret" /\ l2.pc = "ret")
              => /\ l2.response.status # 429
                 /\ ~l2.ret.ok => l2.ret.error # <<"Companies House API error: ",
                                                    "429 Too Many Requests">> ]_vars

\* a call that was answered 429 twice, once without a header and once with
\* Retry-After: 3600, has returned data
C14_Witness ==
  \E p \in DOMAIN proc :
     /\ proc[p].pc = "ret"
     /\ proc[p].ret.ok
     /\ proc[p].limited = 2
     /\ proc[p].response.status = 200
     /\ now >= 2 * cacheExpiry

\* C15: every 429 is followed by one more request and nothing else: a call
\* with k 429s behind it has sent k + 1 requests while one is in flight and
\* when a response has ended it, and k while it waits to retry; a 429 never
\* ends the call, whatever k, and the retry that follows the wait is made.
C15_OneRetryPer429 ==
  [][ \A p \in DOMAIN proc :
        LET l == proc[p]
            l2 == proc'[p]
        IN
        /\ l2.pc = "fetch" => l2.sent = l2.limited + 1
        /\ l2.pc = "backoff" => l2.limited >= 1 /\ l2.sent = l2.limited
        /\ (l2.pc = "ret" /\ l2.response.status # 0) => l2.sent = l2.limited + 1
        /\ (l.pc = "fetch" /\ l2.pc # "fetch" /\ l2.response.status = 429)
              => l2.pc = "backoff" /\ l2.limited = l.limited + 1
        /\ (l.pc = "call" /\ l2.pc # "call" /\ l.limited >= 1)
              => l2.pc \in {"gate", "fetch"}
        /\ (l.pc = "gate" /\ l2.pc # "gate") => l2.pc = "fetch" ]_vars

\* a call that was answered 429, 429 and then 404 has ended with three
\* requests sent
C15_Witness ==
  \E p \in DOMAIN proc :
     /\ proc[p].pc = "ret"
     /\ ~proc[p].ret.ok
     /\ proc[p].response.status = 404
     /\ proc[p].limited = 2
     /\ proc[p].sent = 3

\* C16: a 404 ends the call with the error "Company not found", any other
\* status that is neither 2xx nor 429 ends it with an error that carries the
\* status and its text; no further request is sent for the call, and the
\* error is what the caller gets: the bulk loop logs its message for the
\* item, the single lookup answers with it.
C16_ErrorStatusesThrow ==
  [][ \A p \in DOMAIN proc :
        LET l == proc[p]
            l2 == proc'[p]
            status == l2.response.status
        IN
        /\ (l.pc = "fetch" /\ l2.pc # "fetch" /\ status = 404)
              => l2.pc = "ret" /\ l2.ret = Err(<<"Company not found">>)
        /\ (l.pc = "fetch" /\ l2.pc # "fetch" /\ status = 500)
              => /\ l2.pc = "ret"
                 /\ l2.ret = Err(<<"Companies House API error: ", "500 Internal Server Error">>)
        /\ (l.pc = "fetch" /\ l2.pc # "fetch" /\ status \notin {0, 200, 429})
              => l2.pc = "ret" /\ ~l2.ret.ok /\ l2.sent = l.sent
        /\ (l.pc = "ret" /\ ~l.ret.ok /\ l2.pc # "ret")
              => /\ l2.pc # "call"
                 /\ l.kind = "bulk" =>
                       /\ l2.pc = "progress"
                       /\ l2.errors = Append(l.errors, [company |-> l.list[l.idx],
                                                        error |-> l.ret.error])
                 /\ l.kind = "lookup" =>
                       /\ l2.pc = "answered"
                       /\ l2.answer.status = 500
                       /\ l2.answer.error = l.ret.error ]_vars

\* a bulk job has logged a 404 for its first item and a 500 for its second
C16_Witness ==
  \E p \in DOMAIN proc :
     /\ proc[p].kind = "bulk"
     /\ Len(proc[p].errors) >= 2
     /\ proc[p].errors[1].error = <<"Company not found">>
     /\ proc[p].errors[2].error = <<"Companies House API error: ", "500 Internal Server Error">>

\* the status codes the table of interpretations lists
KnownStatuses ==
  { <<"active">>, <<"dissolved">>, <<"liquidation">>, <<"receivership">>,
    <<"converted-closed">>, <<"insolvency-proceedings">> }

\* the record a call of getCompanyDetails has returned to process p
ReturnedRecord(p) == cache'[CacheKey(proc[p].call)].data

\* C17: when makeRequest has handed a payload to getCompanyDetails, from
\* the registry or from the cache: a payload without its name, number or
\* status makes the call fail with the error that names the first missing
\* field, and nothing is saved; any other payload is returned with the
\* current time as its retrieval timestamp and with the interpretation of
\* its status, which is "Unknown status" for a status outside the table.
C17_DetailsValidated ==
  [][ \A p \in DOMAIN proc :
        LET l == proc[p]
            l2 == proc'[p]
            data == l.ret.data
            missing == SelectSeq(<<"company_name", "company_number", "company_status">>,
                                 LAMBDA f : data[f] = Undefined)
        IN
        (l.pc = "ret" /\ l.ret.ok /\ l.call.kind = "details" /\ l2.pc # "ret")
        => IF missing # <<>>
           THEN /\ companies' = companies
                /\ l.kind = "bulk" =>
                      /\ l2.failedCount = l.failedCount + 1
                      /\ l2.errors[Len(l2.errors)].error =
                            <<"Missing required field: ", Head(missing)>>
                /\ l.kind = "lookup" =>
                      /\ l2.answer.status = 500
                      /\ l2.answer.error = <<"Missing required field: ", Head(missing)>>
           ELSE /\ Len(companies') = Len(companies) + 1
                /\ ReturnedRecord(p).company_number = data.company_number
                /\ ReturnedRecord(p).data_retrieved_at = now
                /\ data.company_status = <<"active">> =>
                      ReturnedRecord(p).status_interpretation = <<"Company is actively trading">>
                /\ data.company_status \notin KnownStatuses =>
                      ReturnedRecord(p).status_interpretation = <<"Unknown status">> ]_vars

\* C18: of the identifiers of the model only NumberA consists of exactly
\* eight digits.  While and after it is resolved, as a bulk item or by a
\* single lookup, the client calls made for it are one getCompanyDetails of
\* that number and nothing else; for every other identifier the first call
\* is the search for it.
C18_NumbersSkipSearch ==
  \A p \in DOMAIN proc :
     LET l == proc[p] IN
     (l.calls # <<>> /\ l.idx \in 1..Len(l.list)) =>
        IF l.list[l.idx] = NumberA
        THEN l.calls = <<DetailsCall(NumberA)>>
        ELSE l.calls[1] = SearchCall(l.list[l.idx])

\* the second item of a bulk job, a company number, has been saved after
\* one detail fetch
C18_Witness ==
  \E p \in DOMAIN proc :
     /\ proc[p].kind = "bulk"
     /\ proc[p].idx = 2
     /\ Len(proc[p].list) >= 2
     /\ proc[p].list[2] = NumberA
     /\ proc[p].pc = "delay"
     /\ proc[p].calls = <<DetailsCall(NumberA)>>
     /\ proc[p].outcome = <<FALSE, TRUE>>

\* the searches the claim lists for the name of the model, " Acme  Co"
ExpectedSearches ==
  << NameSpaced,
     <<" ", "A", "c", "m", "e", " ", " ", "C", "o", " ", "L", "I", "M", "I", "T", "E", "D">>,
     <<" ", "A", "c", "m", "e", " ", " ", "C", "o", " ", "L", "T", "D">>,
     <<" ", "A", "c", "m", "e", " ", " ", "C", "o", " ", "S", "E", "R", "V", "I", "C", "E", "S">>,
     <<"A", "c", "m", "e", " ", "C", "o">> >>

\* C19: for a name in a bulk job, the searches made follow the list above:
\* the name, then the name with LIMITED, LTD and SERVICES added, then the
\* name with its whitespace cleaned.  When a search returns results no other
\* search is made for the item; when it returns none the next of the list is
\* made; when the last returns none the item fails as not found.
C19_VariationsInOrder ==
  [][ \A p \in DOMAIN proc :
        LET l == proc[p]
            l2 == proc'[p]
            n == Len(l.calls)
        IN
        ( /\ l.kind = "bulk" /\ l.pc = "ret" /\ l.ret.ok /\ l.call.kind = "search"
          /\ l.list[l.idx] = NameSpaced
          /\ l2.pc # "ret" )
        => /\ \A i \in 1..n : l.calls[i] = SearchCall(ExpectedSearches[i])
           /\ IF l.ret.data.items # <<>>
              THEN ~(l2.pc = "call" /\ l2.call.kind = "search")
              ELSE IF n < Len(ExpectedSearches)
              THEN /\ l2.pc = "call"
                   /\ l2.call = SearchCall(ExpectedSearches[n + 1])
                   /\ l2.idx = l.idx
              ELSE /\ l2.pc = "progress"
                   /\ l2.failedCount = l.failedCount + 1
                   /\ l2.errors[Len(l2.errors)] =
                         [ company |-> NameSpaced,
                           error |-> <<"Company \"">> \o NameSpaced
                                     \o <<"\" not found in Companies House registry.">> ] ]_vars

\* all five searches of the name came back empty and the item has failed
C19_Witness ==
  \E p \in DOMAIN proc :
     /\ proc[p].kind = "bulk"
     /\ proc[p].pc = "progress"
     /\ proc[p].idx = 1
     /\ Len(proc[p].calls) = 5
     /\ proc[p].calls[5] = SearchCall(<<"A", "c", "m", "e", " ", "C", "o">>)
     /\ proc[p].failedCount = 1
     /\ now >= cacheExpiry + 4 * minRequestInterval

Enriches(p) ==
  /\ proc[p].pc = "ret" /\ proc'[p].pc # "ret"
  /\ Len(companies') = Len(companies) + 1
  /\ companies'[Len(companies')].employeeCount # NoTime

\* the step of the claim's age rule, in tenths
AgeStepTenths(age) ==
  IF Gt(age, 20) THEN 15 ELSE IF Gt(age, 10) THEN 13 ELSE IF Gt(age, 5) THEN 11 ELSE 10

\* C21: whatever the record's date of creation (none and text that is no
\* date included) and its classification codes, the employee count saved is
\* an integer from 1 to 12: the base of the record's sector and age times
\* exactly one of 1.5 (age > 20), 1.3 (age > 10), 1.1 (age > 5) or 1,
\* rounded down and cut to that range.
C21_EmployeeCountInRange ==
  [][ \A p \in DOMAIN proc :
        Enriches(p) =>
          LET c == companies'[Len(companies')]
              age == companyAgeOf(c.incorporationDate)
              base == baseEmployees(age, c.sicCodes)
          IN /\ c.employeeCount \in 1..12
             /\ c.employeeCount = Max(1, Min(12, (base * AgeStepTenths(age)) \div 10)) ]_vars

\* a civil-engineering company of thirty years, saved with the cap of 12,
\* which its base of 12 times 1.5 exceeds
C21_Witness ==
  \E i \in 1..Len(companies) :
     /\ companies[i].incorporationDate = [valid |-> TRUE, year |-> ThisYear - 30]
     /\ SomeStartsWith(companies[i].sicCodes, <<"4", "2">>)
     /\ companies[i].employeeCount = 12

\* the age estimateValuation was given for company c: the one of its saving
AgeWhenSaved(c) ==
  IF c.incorporationDate.valid
  THEN Number(DateAt(c.createdAt).year - c.incorporationDate.year)
  ELSE NaN

\* C22: the estimators depend on their arguments only: any two companies
\* saved with derived fields from the same date of creation and the same
\* codes have the same employee count, whenever they were saved; the same
\* employee count and codes give the same revenue; the same revenue,
\* employee count, codes and age give the same valuation.
C22_EstimatesDeterministic ==
  \A i, j \in 1..Len(companies) :
     LET a == companies[i]
         b == companies[j]
     IN (a.employeeCount # NoTime /\ b.employeeCount # NoTime /\ a.sicCodes = b.sicCodes) =>
          /\ a.incorporationDate = b.incorporationDate => a.employeeCount = b.employeeCount
          /\ a.employeeCount = b.employeeCount => a.estimatedRevenue = b.estimatedRevenue
          /\ ( /\ a.employeeCount = b.employeeCount
               /\ a.estimatedRevenue = b.estimatedRevenue
               /\ AgeWhenSaved(a) = AgeWhenSaved(b) )
             => a.estimatedValuation = b.estimatedValuation

\* the error a returned call ends the lookup with, if any: the error thrown
\* by the search or the detail fetch, or the first mandatory field the
\* payload lacks
LookupFailure(l) ==
  IF ~l.ret.ok THEN Some(l.ret.error)
  ELSE IF l.call.kind = "details" /\ Falsy(l.ret.data.company_name)
  THEN Some(<<"Missing required field: ", "company_name">>)
  ELSE IF l.call.kind = "details" /\ Falsy(l.ret.data.company_number)
  THEN Some(<<"Missing required field: ", "company_number">>)
  ELSE IF l.call.kind = "details" /\ Falsy(l.ret.data.company_status)
  THEN Some(<<"Missing required field: ", "company_status">>)
  ELSE None

\* C23: when the search, the detail fetch or the validation of a single
\* lookup fails, the lookup ends there with that error as its answer and
\* without a company; and a lookup adds a company to the repository only in
\* the step in which it answers 200 with that company.
C23_LookupErrorSurfaces ==
  [][ \A p \in DOMAIN proc :
        LET l == proc[p]
            l2 == proc'[p]
        IN (l.kind = "lookup" /\ l2 # l) =>
             /\ (l.pc = "ret" /\ LookupFailure(l) # None) =>
                   /\ l2.pc = "answered"
                   /\ l2.answer.status = 500
                   /\ l2.answer.error = LookupFailure(l)[1]
                   /\ l2.answer.company = None
                   /\ companies' = companies
             /\ companies' # companies =>
                   /\ l2.pc = "answered" /\ l2.answer.status = 200
                   /\ companies' = Append(companies, l2.answer.company[1]) ]_vars

\* a lookup answered with the missing-field error of its payload
C23_Witness ==
  \E p \in DOMAIN proc :
     /\ proc[p].kind = "lookup" /\ proc[p].pc = "answered"
     /\ proc[p].answer.status = 500
     /\ proc[p].answer.error = <<"Missing required field: ", "company_status">>
     /\ companies = <<>>

\* the company saved last under the number of companies[i]
LatestSaved(i) ==
  companies[CHOOSE k \in 1..Len(companies) :
              /\ companies[k].companyNumber = companies[i].companyNumber
              /\ \A m \in (k + 1)..Len(companies) :
                    companies[m].companyNumber # companies[i].companyNumber]

\* C24: the repository holds at most one company per company number, and
\* the record it answers for a number carries the derived fields of the
\* latest enrichment of that company.
C24_OneRecordPerNumber ==
  \A i \in 1..Len(companies) :
     /\ \A j \in 1..Len(companies) :
           companies[i].companyNumber = companies[j].companyNumber => i = j
     /\ LET found == getCompanyByNumber(companies[i].companyNumber)[1]
        IN /\ found.employeeCount = LatestSaved(i).employeeCount
           /\ found.estimatedRevenue = LatestSaved(i).estimatedRevenue
           /\ found.estimatedValuation = LatestSaved(i).estimatedValuation

\* the positions of a processor inside a call of the registry client
InCall == {"call", "gate", "fetch", "backoff", "ret"}

C26_OnlyOwnerWritesJob ==
  [][ \A id \in StoredJobs :
        ( /\ processingJobs[id].status \notin Terminal
          /\ \/ id \notin DOMAIN processingJobs'
             \/ processingJobs'[id] # processingJobs[id] )
        => \E p \in DOMAIN proc :
              /\ proc[p].kind = "bulk" /\ proc[p].jobId = id
              /\ proc'[p] # proc[p] ]_vars

\* process p reads the cache in this step and finds the entry of its key
\* older than the expiry window
FindsStale(p) ==
  /\ proc[p].pc = "call" /\ proc'[p].pc # "call"
  /\ apiKey
  /\ CacheKey(proc[p].call) \in DOMAIN cache
  /\ now - cache[CacheKey(proc[p].call)].timestamp >= cacheExpiry

\* C27: the read that finds an entry stale removes it from the cache, and
\* cacheStats counts one entry less; no other step removes an entry.
C27_StaleReadEvicts ==
  [][ /\ \A p \in DOMAIN proc :
           FindsStale(p) =>
              /\ CacheKey(proc[p].call) \notin DOMAIN cache'
              /\ getCacheStats'.size = getCacheStats.size - 1
      /\ (\E k \in DOMAIN cache : k \notin DOMAIN cache')
           => \E p \in DOMAIN proc : FindsStale(p) ]_vars

\* the four age bands of the claim, in whole years, with the multiplier of
\* each in hundredths
MaturityBands ==
  { [from |-> -1000, to |-> 1, bonus |-> 85],
    [from |-> 4, to |-> 8, bonus |-> 102],
    [from |-> 9, to |-> 15, bonus |-> 108],
    [from |-> 16, to |-> 1000, bonus |-> 115] }

BandsOf(age) == {b \in MaturityBands : ~age.nan /\ b.from <= age.n /\ age.n <= b.to}

\* floor(revenue x multiple/10 x bonus/100 x discount/100)
FloorOfProduct(revenue, multiple, bonus, discount) ==
  LET scaled == revenue * multiple * bonus
  IN (scaled \div 100000) * discount + ((scaled % 100000) * discount) \div 100000

\* C28: the age of every company valued lies in exactly one of four bands;
\* the band under 2 years has a multiplier below 1; the valuation is the
\* floor of revenue x sector multiple x the band's multiplier x liquidity
\* discount, the discount being lowest for at most 2 employees, and it is
\* not negative.
C28_ValuationBands ==
  [][ \A p \in DOMAIN proc :
        (Enriches(p) /\ companies'[Len(companies')].incorporationDate.valid) =>
          LET c == companies'[Len(companies')]
              age == companyAgeOf(c.incorporationDate)
              band == CHOOSE b \in BandsOf(age) : TRUE
              discount == liquidityDiscount(c.employeeCount)
          IN /\ Cardinality(BandsOf(age)) = 1
             /\ Lt(age, 2) => band.bonus < 100
             /\ c.employeeCount <= 2 => \A n \in 3..12 : discount < liquidityDiscount(n)
             /\ parseInt(c.estimatedValuation) >= 0
             /\ c.estimatedValuation =
                   IntToString(FloorOfProduct(parseInt(c.estimatedRevenue),
                                              revenueMultiple(c.sicCodes),
                                              band.bonus, discount)) ]_vars

\* the bands of the code: the four above and the ages 2 and 3, which are
\* left as they are
FiveBands == MaturityBands \cup {[from |-> 2, to |-> 3, bonus |-> 100]}

\* the multiplier of an age by the five bands; an age that is no number
\* (the record has no usable date) is left as it is
BandBonus(age) ==
  IF age.nan THEN 100
  ELSE (CHOOSE b \in FiveBands : b.from <= age.n /\ age.n <= b.to).bonus

\* C28, amended: the age of every company valued lies in exactly one of
\* five bands (over 15: 1.15, 9 to 15: 1.08, 4 to 8: 1.02, 2 or 3: 1,
\* under 2: 0.85); the valuation is the floor of revenue x sector multiple x
\* the band's multiplier x liquidity discount, the discount being lowest for
\* at most 2 employees, and it is not negative.
C28_ValuationFiveBands ==
  [][ \A p \in DOMAIN proc :
        Enriches(p) =>
          LET c == companies'[Len(companies')]
              age == companyAgeOf(c.incorporationDate)
              discount == liquidityDiscount(c.employeeCount)
          IN /\ ~age.nan =>
                  Cardinality({b \in FiveBands : b.from <= age.n /\ age.n <= b.to}) = 1
             /\ Lt(age, 2) => BandBonus(age) < 100
             /\ c.employeeCount <= 2 => \A n \in 3..12 : discount < liquidityDiscount(n)
             /\ parseInt(c.estimatedValuation) >= 0
             /\ c.estimatedValuation =
                   IntToString(FloorOfProduct(parseInt(c.estimatedRevenue),
                                              revenueMultiple(c.sicCodes),
                                              BandBonus(age), discount)) ]_vars

\* a specialised-construction company of two years, valued without any
\* adjustment for its age: 72000 x 0.6 x 1 x 0.75
C28_Witness ==
  \E i \in 1..Len(companies) :
     /\ companies[i].incorporationDate = [valid |-> TRUE, year |-> ThisYear - 2]
     /\ companies[i].createdAt < NewYear
     /\ companies[i].estimatedRevenue = <<"7", "2", "0", "0", "0">>
     /\ companies[i].estimatedValuation = <<"3", "2", "4", "0", "0">>

\* C29: a request that ends in a 404, another status that is not 2xx, a 429
\* or a failure of the fetch leaves the cache exactly as it was; an entry is
\* created or replaced only in the step in which a request for its key gets
\* a 2xx response.
C29_OnlySuccessCached ==
  [][ /\ \A p \in DOMAIN proc :
           ( /\ proc[p].pc = "fetch" /\ proc'[p].pc # "fetch"
             /\ proc'[p].response.status \notin 200..299 )
           => cache' = cache
      /\ \A k \in DOMAIN cache' :
           (k \notin DOMAIN cache \/ cache'[k].timestamp # cache[k].timestamp)
           => \E p \in DOMAIN proc :
                 /\ proc[p].pc = "fetch" /\ CacheKey(proc[p].call) = k
                 /\ proc'[p].response.status \in 200..299
                 /\ cache'[k].timestamp = now ]_vars

\* a request has ended in a 404 and the expired entry of its key is still
\* in the cache
C29_Witness ==
  \E p \in DOMAIN proc :
     /\ proc[p].pc = "ret" /\ ~proc[p].ret.ok
     /\ proc[p].response.status = 404
     /\ CacheKey(proc[p].call) \in DOMAIN cache

\* the first mandatory field a payload lacks, if any
Lacking(data) ==
  IF Falsy(data.company_name) THEN Some("company_name")
  ELSE IF Falsy(data.company_number) THEN Some("company_number")
  ELSE IF Falsy(data.company_status) THEN Some("company_status")
  ELSE None

\* the cache holds, for key k, a company payload that lacks a mandatory
\* field and is younger than the expiry window
HoldsDefective(k) ==
  /\ k \in DOMAIN cache
  /\ now - cache[k].timestamp < cacheExpiry
  /\ Lacking(cache[k].data) # None

\* the error process state l2 reports for the call that l was in
ReportedError(l, l2) ==
  IF l.kind = "bulk"
  THEN IF Len(l2.errors) = Len(l.errors) + 1 THEN Some(l2.errors[Len(l2.errors)].error)
       ELSE None
  ELSE IF l2.answer.status = 500 THEN Some(l2.answer.error) ELSE None

\* C30: a payload that lacks a mandatory field is in the cache when its
\* validation fails; and as long as the cache holds it within the expiry
\* window, a detail call for the same identifier sends no request, gets
\* that payload and fails with the same missing-field error.
C30_DefectivePayloadCached ==
  [][ \A p \in DOMAIN proc :
        LET l == proc[p]
            l2 == proc'[p]
            k == CacheKey(l.call)
        IN /\ ( /\ l.pc = "call" /\ l.call.kind = "details" /\ l2 # l
                /\ HoldsDefective(k) )
              => /\ l2.pc = "ret" /\ l2.ret = Ok(cache[k].data)
                 /\ l2.sent = 0
                 /\ UNCHANGED <<cache, lastRequestTime>>
           /\ ( /\ l.pc = "ret" /\ l.ret.ok /\ l.call.kind = "details" /\ l2 # l
                /\ Lacking(l.ret.data) # None )
              => /\ ReportedError(l, l2)
                      = Some(<<"Missing required field: ", Lacking(l.ret.data)[1]>>)
                 /\ k \in DOMAIN cache /\ cache[k].data = l.ret.data
                 /\ cache' = cache ]_vars

\* the second detail call for an identifier has been answered from the
\* cache, without a request, after the first failed for a missing field
C30_Witness ==
  \E p \in DOMAIN proc :
     /\ proc[p].kind = "bulk" /\ proc[p].idx = 2 /\ Len(proc[p].list) >= 2
     /\ proc[p].list[1] = proc[p].list[2]
     /\ proc[p].call.kind = "details"
     /\ proc[p].errors = << [company |-> proc[p].list[1],
                             error |-> <<"Missing required field: ", "company_status">>] >>
     /\ proc[p].pc = "ret" /\ proc[p].ret.ok /\ proc[p].sent = 0
     /\ Lacking(proc[p].ret.data) = Some("company_status")
====
